---- MODULE Spec2Model ----
(***************************************************************************)
(* FastPyNUTS: locating the NUTS regions of a point.                       *)
(*                                                                         *)
(* Coordinates are points of the integer lattice.  A geometry is a union   *)
(* of closed rectangles (neighbouring regions share the points of their    *)
(* common boundary) together with the distance it was buffered by; the     *)
(* exact predicate intersects_xy is "within that distance of a part", and  *)
(* bounds is the bounding box of the parts grown by that distance.         *)
(*                                                                         *)
(* The region file obeys the hierarchy the program assumes: every region   *)
(* above level 0 has its parent (id minus last character) in the file, and *)
(* a parent's geometry is the union of its children's geometries.  Two     *)
(* countries of two level-1 regions each; regions meet along boundaries,   *)
(* and the bboxes of regions that do not meet overlap.                     *)
(***************************************************************************)
EXTENDS Integers, Sequences, FiniteSets, TLC

VARIABLES finder, call, ret, dl, threads

vars == <<finder, call, ret, dl, threads>>

\* ------------------------------------------------------------------ bounds
\* query points are the lattice points (0..GridW) \X (0..GridH)
GridW == 9
GridH == 7
\* buffer_geoms ranges over 0..MaxBuffer (0 is Python-falsy: no buffering)
MaxBuffer == 1

\* NUTS levels 0..3 (default max_level of NUTSfinder.__init__)
MaxNutsLevel == 3

Levels == 0..MaxNutsLevel

Buffers == 0..MaxBuffer

Points == (0..GridW) \X (0..GridH)

None == [none |-> TRUE]

\* ------------------------------------------------------------------ strings
\* the characters of the ids, in code point order
Alphabet == <<"1", "2", "D", "E", "F", "R">>

Ord(c) == CHOOSE i \in 1..Len(Alphabet) : Alphabet[i] = c

\* Python's str.__lt__ on ids held as sequences of characters: decided by the first
\* position at which the two differ, or by the lengths if one is a prefix of the other
StrLt(a, b) ==
    LET n    == IF Len(a) < Len(b) THEN Len(a) ELSE Len(b)
        diff == { i \in 1..n : a[i] # b[i] }
        d    == CHOOSE i \in diff : \A j \in diff : i <= j
    IN  IF diff = {} THEN Len(a) < Len(b) ELSE Ord(a[d]) < Ord(b[d])

\* id[:-1]
StripLast(id) == IF id = <<>> THEN <<>> ELSE SubSeq(id, 1, Len(id) - 1)

\* ------------------------------------------------------------------ the region file
Rect(x0, y0, x1, y1) == [x0 |-> x0, y0 |-> y0, x1 |-> x1, y1 |-> y1]

Feature(id, level, polys) ==
    [id |-> id,
     properties |-> [NUTS_ID |-> id, LEVL_CODE |-> level],
     geometry |-> [type |-> IF Cardinality(polys) = 1 THEN "Polygon" ELSE "MultiPolygon",
                   coordinates |-> polys]]

\* the max_level regions; DE211 is L-shaped, so its bbox holds points outside it
FR111poly == {Rect(1, 3, 2, 4)}
FR211poly == {Rect(3, 1, 4, 2)}
DE111poly == {Rect(4, 1, 6, 3)}
DE112poly == {Rect(6, 1, 8, 3)}
DE211poly == {Rect(6, 3, 8, 4), Rect(8, 4, 9, 6)}

DE1poly == DE111poly \cup DE112poly

\* the features in file order (the file is not sorted by level)
Features ==
    << Feature(<<"D", "E", "1", "1", "2">>, 3, DE112poly),
       Feature(<<"F", "R", "2">>, 1, FR211poly),
       Feature(<<"D", "E">>, 0, DE1poly \cup DE211poly),
       Feature(<<"F", "R", "1", "1", "1">>, 3, FR111poly),
       Feature(<<"D", "E", "2", "1">>, 2, DE211poly),
       Feature(<<"D", "E", "1", "1">>, 2, DE1poly),
       Feature(<<"F", "R">>, 0, FR111poly \cup FR211poly),
       Feature(<<"F", "R", "2", "1", "1">>, 3, FR211poly),
       Feature(<<"D", "E", "1", "1", "1">>, 3, DE111poly),
       Feature(<<"D", "E", "2">>, 1, DE211poly),
       Feature(<<"F", "R", "1", "1">>, 2, FR111poly),
       Feature(<<"D", "E", "1">>, 1, DE1poly),
       Feature(<<"D", "E", "2", "1", "1">>, 3, DE211poly),
       Feature(<<"F", "R", "1">>, 1, FR111poly),
       Feature(<<"F", "R", "2", "1">>, 2, FR211poly) >>

\* ------------------------------------------------------------------ geometry
SetMin(S) == CHOOSE x \in S : \A y \in S : x <= y

SetMax(S) == CHOOSE x \in S : \A y \in S : x >= y

Max2(a, b) == IF a >= b THEN a ELSE b

\* utils.geometry2polygon: the shapely geometry of a Polygon / MultiPolygon feature,
\* held as its parts and the distance it has been buffered by
geometry2polygon(feature) == [parts |-> feature.geometry.coordinates, dist |-> 0]

\* shapely geometry.buffer(b): every point within distance b of the geometry
BufferGeom(g, b) == [parts |-> g.parts, dist |-> g.dist + b]

\* shapely geometry.bounds
Bounds(g) ==
    [xmin |-> SetMin({r.x0 : r \in g.parts}) - g.dist,
     ymin |-> SetMin({r.y0 : r \in g.parts}) - g.dist,
     xmax |-> SetMax({r.x1 : r \in g.parts}) + g.dist,
     ymax |-> SetMax({r.y1 : r \in g.parts}) + g.dist]

\* squared distance of the point (x, y) to the closed rectangle r
Dist2(r, x, y) ==
    LET dx == Max2(Max2(r.x0 - x, x - r.x1), 0)
        dy == Max2(Max2(r.y0 - y, y - r.y1), 0)
    IN  dx * dx + dy * dy

\* shapely.intersects_xy(geom, lon, lat): the exact point-in-geometry test
intersects_xy(geom, lon, lat) ==
    \E r \in geom.parts : Dist2(r, lon, lat) <= geom.dist * geom.dist

\* ------------------------------------------------------------------ NUTSregion
\* NUTSregion.__init__: geometry, optional buffer, bbox of the (buffered) geometry
NUTSregion(feature, buffer) ==
    LET g0 == geometry2polygon(feature)
        g  == IF buffer # 0 THEN BufferGeom(g0, buffer) ELSE g0
    IN  [id |-> feature.properties.NUTS_ID,
         level |-> feature.properties.LEVL_CODE,
         geom |-> g,
         bbox |-> Bounds(g)]

\* NUTSregion.__eq__
RegionEq(a, b) == a.id = b.id

\* a slip in __lt__: the level is not compared
RegionLtIdOnly(a, b) == StrLt(a.id, b.id)

\* NUTSregion.__lt__
RegionLt(a, b) == (a.level < b.level) \/ (a.level = b.level /\ StrLt(a.id, b.id))

\* An assignment `v = e` followed by code that uses v is written
\*     CHOOSE result \in { F(v) : v \in {e} } : TRUE
\* which is F(e) with e evaluated once, as the assignment evaluates it.

\* the elements of s at the positions K, in the order of s
SubSeqAt(s, K) ==
    [j \in 1..Cardinality(K) |-> s[CHOOSE i \in K : Cardinality({k \in K : k <= i}) = j]]

\* the place of s[j] after a stable sort by __lt__: behind every smaller element
\* and behind the elements before it that are not greater
SortedPlace(s, j) ==
    1 + Cardinality({ k \in 1..Len(s) :
                        RegionLt(s[k], s[j]) \/ (k < j /\ ~RegionLt(s[j], s[k])) })

SortedValue(s) ==
    LET place == [j \in 1..Len(s) |-> SortedPlace(s, j)]
    IN  [i \in 1..Len(s) |-> s[CHOOSE j \in 1..Len(s) : place[j] = i]]

\* sorted(list), by NUTSregion.__lt__
sorted(s) == CHOOSE result \in { SortedValue(v) : v \in {s} } : TRUE

\* one element per run of equal elements
DropRepeats(s) == SubSeqAt(s, { i \in 1..Len(s) : i = 1 \/ ~RegionEq(s[i - 1], s[i]) })

\* numpy.unique(list).tolist(): sorted, one element per run of equal elements
np_unique(s) == CHOOSE result \in { DropRepeats(v) : v \in {sorted(s)} } : TRUE

\* `x in list`
InList(r, s) == \E i \in 1..Len(s) : RegionEq(s[i], r)

\* list.index(x): the first position (0-based) of an equal element
ListIndex(s, r) == SetMin({i \in 1..Len(s) : RegionEq(s[i], r)}) - 1

Range(s) == { s[i] : i \in 1..Len(s) }

\* ------------------------------------------------------------------ loading
\* NUTSfinder._filter_regions: the features of the configured levels, as regions
_filter_regions(regions_in, min_level, max_level, buffer) ==
    LET filtered == SelectSeq(regions_in, LAMBDA feature :
                        /\ min_level <= feature.properties.LEVL_CODE
                        /\ feature.properties.LEVL_CODE <= max_level)
    IN  [i \in 1..Len(filtered) |-> NUTSregion(filtered[i], buffer)]

\* NUTSfinder._load_regions
_load_regions(regions_in, min_level, max_level, buffer) ==
    sorted(_filter_regions(regions_in, min_level, max_level, buffer))

\* ------------------------------------------------------------------ R-tree
\* the orders in which an index may yield the entries that match a query: the
\* library leaves the order open; it is fixed when the index is built
Orders == {"asc", "desc"}

\* a slip in _construct_rtree: the given indices are ignored, every entry is keyed by
\* its position in `regions`
_construct_rtree_own_positions(regions, indices, embed_obj, order) ==
    [order |-> order,
     entries |-> [k \in 1..Len(regions) |->
                    [id |-> k - 1,
                     coordinates |-> regions[k].bbox,
                     obj |-> IF embed_obj THEN regions[k] ELSE None]]]

\* NUTSfinder._construct_rtree: one entry per region, keyed by the given indices or
\* by the position in `regions` (0-based), optionally with the region embedded
_construct_rtree(regions, indices, embed_obj, order) ==
    LET keys == IF indices # <<>> THEN indices ELSE [i \in 1..Len(regions) |-> i - 1]
        n    == IF Len(keys) < Len(regions) THEN Len(keys) ELSE Len(regions)
    IN  [order |-> order,
         entries |-> [k \in 1..n |->
                        [id |-> keys[k],
                         coordinates |-> regions[k].bbox,
                         obj |-> IF embed_obj THEN regions[k] ELSE None]]]

Reverse(s) == [i \in 1..Len(s) |-> s[Len(s) + 1 - i]]

\* the bbox test of the index: inclusive on all four edges
BboxContains(bbox, lon, lat) ==
    (bbox.xmin <= lon /\ lon <= bbox.xmax) /\ (bbox.ymin <= lat /\ lat <= bbox.ymax)

\* rtree.index.Index.intersection((lon, lat, lon, lat)): the matching entries in the
\* index's yield order
rtree_intersection(rt, lon, lat) ==
    LET match == SelectSeq(rt.entries, LAMBDA e : BboxContains(e.coordinates, lon, lat))
    IN  IF rt.order = "asc" THEN match ELSE Reverse(match)

\* ------------------------------------------------------------------ hierarchy tree
Root == <<"root">>

TreeNode(identifier, parent, data) ==
    [identifier |-> identifier, parent |-> parent, data |-> data]

\* Tree() followed by create_node(tag="NUTS", identifier="root")
NewTree == [status |-> "ok", nodes |-> <<TreeNode(Root, <<>>, None)>>]

\* treelib Tree.get_node / tree[nid]
get_node(tree, nid) ==
    tree.nodes[CHOOSE i \in 1..Len(tree.nodes) : tree.nodes[i].identifier = nid]

\* treelib Tree.children: the child nodes in insertion order
children(tree, nid) == SelectSeq(tree.nodes, LAMBDA n : n.parent = nid /\ n.identifier # Root)

\* treelib Tree.parent
parent(tree, nid) == get_node(tree, get_node(tree, nid).parent)

\* the parent node _construct_tree gives a region: the root for the root level,
\* the node id[:-1] otherwise
ParentId(region, root_level) ==
    IF region.level = root_level THEN Root ELSE StripLast(region.id)

\* create_node fails for regions[i]: its id is in the tree, or its parent is not
NodeError(regions, i, root_level) ==
    IF \E k \in 1..(i - 1) : regions[k].id = regions[i].id THEN "DuplicatedNodeIdError"
    ELSE IF /\ ParentId(regions[i], root_level) # Root
            /\ \A k \in 1..(i - 1) : regions[k].id # ParentId(regions[i], root_level)
    THEN "NodeIDAbsentError"
    ELSE "ok"

\* a slip in the loop of _construct_tree: a region for which create_node fails is
\* skipped and the loop goes on
TreeFillSkipping(regions, root_level) ==
    LET good == { i \in 1..Len(regions) : NodeError(regions, i, root_level) = "ok" }
        kept == SubSeqAt(regions, good)
    IN  [status |-> "ok",
         nodes  |-> NewTree.nodes \o
                    [i \in 1..Len(kept) |-> TreeNode(kept[i].id, ParentId(kept[i], root_level),
                                                     kept[i])]]

\* the loop of _construct_tree: one node per region, in the order of `regions`, up to
\* the first region for which create_node fails
TreeFill(regions, root_level) ==
    LET bad == { i \in 1..Len(regions) : NodeError(regions, i, root_level) # "ok" }
        n   == IF bad = {} THEN Len(regions) ELSE SetMin(bad) - 1
    IN  [status |-> IF bad = {} THEN "ok" ELSE NodeError(regions, SetMin(bad), root_level),
         nodes  |-> NewTree.nodes \o
                    [i \in 1..n |-> TreeNode(regions[i].id, ParentId(regions[i], root_level),
                                             regions[i])]]

\* NUTSfinder._construct_tree
_construct_tree(regions, min_level) == TreeFill(regions, min_level)

\* a slip in _get_parents: the walk stops after the immediate parent
_get_parents_once(tree, id) ==
    LET parent_region == parent(tree, id).data
    IN  IF parent_region = None THEN <<>> ELSE <<parent_region>>

\* a slip in _get_parents: the ancestors are collected min_level ancestor first
RECURSIVE _get_parents_top_first(_, _)
_get_parents_top_first(tree, id) ==
    LET parent_region == parent(tree, id).data
    IN  IF parent_region = None THEN <<>>
        ELSE _get_parents_top_first(tree, parent_region.id) \o <<parent_region>>

\* NUTSfinder._get_parents: the ancestors, immediate parent first
RECURSIVE _get_parents(_, _)
_get_parents(tree, id) ==
    LET parent_region == parent(tree, id).data
    IN  IF parent_region = None THEN <<>>
        ELSE <<parent_region>> \o _get_parents(tree, parent_region.id)

\* the second loop of _construct_tree_rtree(_obj): every node's data becomes the
\* R-tree of its children, keyed by their positions in self.regions
RtreeNodes(tree, regions, embed_obj, order) ==
    [i \in 1..Len(tree.nodes) |->
        LET chs  == children(tree, tree.nodes[i].identifier)
            data == [k \in 1..Len(chs) |-> chs[k].data]
            indices == [k \in 1..Len(chs) |-> ListIndex(regions, chs[k].data)]
        IN  [tree.nodes[i] EXCEPT !.data = _construct_rtree(data, indices, embed_obj, order)]]

\* NUTSfinderBenchmark._construct_tree_rtree: the tree hangs level 0 under the root
_construct_tree_rtree(regions, order) ==
    CHOOSE result \in
      { IF tree.status # "ok" THEN tree
        ELSE [tree EXCEPT !.nodes = RtreeNodes(tree, regions, FALSE, order)] :
        tree \in {TreeFill(regions, 0)} } : TRUE

\* NUTSfinderBenchmark._construct_tree_rtree_obj
_construct_tree_rtree_obj(regions, order) ==
    CHOOSE result \in
      { IF tree.status # "ok" THEN tree
        ELSE [tree EXCEPT !.nodes = RtreeNodes(tree, regions, TRUE, order)] :
        tree \in {TreeFill(regions, 0)} } : TRUE

\* ------------------------------------------------------------------ file name
\* the region file on disk: "NUTS_RG_20M_2021_4326.geojson"
FileName ==
    << "N", "U", "T", "S", "_", "R", "G", "_", "2", "0", "M", "_", "2", "0", "2", "1",
       "_", "4", "3", "2", "6", ".", "g", "e", "o", "j", "s", "o", "n" >>

\* a copy of the file, kept in a directory named after the one region whose feature
\* the copy lacks
FileWithout(id) == id \o <<"/">> \o FileName

\* geojson.load(open(file)): the features of the file
FileContents(file) ==
    LET slashes == { i \in 1..Len(file) : file[i] = "/" }
        lacking == SubSeq(file, 1, SetMin(slashes) - 1)
    IN  IF slashes = {} THEN Features
        ELSE SelectSeq(Features, LAMBDA f : f.id # lacking)

Digits == <<"0", "1", "2", "3", "4", "5", "6", "7", "8", "9">>

IsDigit(c) == \E i \in 1..Len(Digits) : Digits[i] = c

\* Python int() on a non-empty string of digits
RECURSIVE int(_)
int(s) ==
    LET d == (CHOOSE i \in 1..Len(Digits) : Digits[i] = s[Len(s)]) - 1
    IN  IF Len(s) = 1 THEN d ELSE 10 * int(SubSeq(s, 1, Len(s) - 1)) + d

\* the literal lit stands in s at position i
HasAt(s, i, lit) == i + Len(lit) - 1 <= Len(s) /\ SubSeq(s, i, i + Len(lit) - 1) = lit

\* the length of the run of digits of s that starts at position i
RECURSIVE DigitRun(_, _)
DigitRun(s, i) == IF i <= Len(s) /\ IsDigit(s[i]) THEN 1 + DigitRun(s, i + 1) ELSE 0

\* r"NUTS_RG_(\d{,2})M_(\d+)_(\d+)" matched at position i: the three groups, or None
MatchAt(s, i) ==
    LET j  == i + 8
        ns == { n \in 0..2 : n <= DigitRun(s, j) /\ HasAt(s, j + n, <<"M", "_">>) }
        n1 == SetMax(ns)
        k  == j + n1 + 2
        n2 == DigitRun(s, k)
        m  == k + n2 + 1
        n3 == DigitRun(s, m)
    IN  IF /\ HasAt(s, i, <<"N", "U", "T", "S", "_", "R", "G", "_">>)
           /\ ns # {}
           /\ n2 >= 1 /\ HasAt(s, k + n2, <<"_">>)
           /\ n3 >= 1
        THEN [scale |-> SubSeq(s, j, j + n1 - 1), year |-> SubSeq(s, k, k + n2 - 1),
              crs |-> SubSeq(s, m, m + n3 - 1)]
        ELSE None

\* NUTSfinder._parse_filename: re.search(...).groups(), each group through int()
_parse_filename(file) ==
    LET starts == { i \in 1..Len(file) : MatchAt(file, i) # None }
    IN  IF starts = {} THEN [status |-> "AttributeError"]
        ELSE LET g == MatchAt(file, SetMin(starts))
             IN  IF g.scale = <<>> THEN [status |-> "ValueError"]
                 ELSE [status |-> "ok", scale |-> int(g.scale), year |-> int(g.year),
                       crs |-> int(g.crs)]

\* ------------------------------------------------------------------ construction
\* the object before __init__ has set anything
NoFinder ==
    [status |-> "none", class |-> "none", args |-> None,
     min_level |-> None, max_level |-> None,
     file |-> None, buffer |-> None, scale |-> None, year |-> None, crs |-> None,
     regions |-> None, tree |-> None, rtree |-> None,
     tree_rtree |-> None, tree_rtree_obj |-> None, rtree_obj |-> None]

\* the arguments of a constructor call
InitArgs(buffer_geoms, min_level, max_level) ==
    [buffer_geoms |-> buffer_geoms, min_level |-> min_level, max_level |-> max_level]

\* a slip in __init__: the levels are asserted after the file has been read
NUTSfinder_init_late(geojsonfile, buffer_geoms, min_level, max_level, order) ==
    CHOOSE result \in
      { LET parsed == _parse_filename(geojsonfile)
            self   == [NoFinder EXCEPT !.class = "NUTSfinder",
                                       !.args = InitArgs(buffer_geoms, min_level, max_level),
                                       !.min_level = min_level, !.max_level = max_level,
                                       !.file = geojsonfile, !.buffer = buffer_geoms,
                                       !.scale = parsed.scale, !.year = parsed.year,
                                       !.crs = parsed.crs, !.regions = regions]
        IN  IF ~(min_level <= max_level) THEN [self EXCEPT !.status = "AssertionError"]
            ELSE [self EXCEPT !.status = "built",
                              !.tree = _construct_tree(regions, min_level),
                              !.rtree = _construct_rtree(regions, <<>>, FALSE, order)] :
        regions \in {_load_regions(FileContents(geojsonfile), min_level, max_level,
                                   buffer_geoms)} } : TRUE

\* NUTSfinder.__init__ after the assertion; `regions` is the value of _load_regions
InitLoaded(geojsonfile, buffer_geoms, min_level, max_level, order, regions) ==
    LET parsed == _parse_filename(geojsonfile)
        tree   == _construct_tree(regions, min_level)
        set    == [NoFinder EXCEPT !.class = "NUTSfinder",
                                   !.args = InitArgs(buffer_geoms, min_level, max_level),
                                   !.min_level = min_level, !.max_level = max_level,
                                   !.file = geojsonfile, !.buffer = buffer_geoms]
    IN  IF parsed.status # "ok" THEN [set EXCEPT !.status = parsed.status]
        ELSE LET self == [set EXCEPT !.scale = parsed.scale, !.year = parsed.year,
                                     !.crs = parsed.crs, !.regions = regions]
             IN  IF tree.status # "ok" THEN [self EXCEPT !.status = tree.status]
                 ELSE [self EXCEPT !.status = "built", !.tree = tree,
                                   !.rtree = _construct_rtree(regions, <<>>, FALSE, order)]

\* NUTSfinder.__init__; `order` is the yield order of the indexes it builds
NUTSfinder_init(geojsonfile, buffer_geoms, min_level, max_level, order) ==
    IF ~(min_level <= max_level)
    THEN [NoFinder EXCEPT !.status = "AssertionError", !.class = "NUTSfinder",
                          !.args = InitArgs(buffer_geoms, min_level, max_level)]
    ELSE CHOOSE result \in
           { InitLoaded(geojsonfile, buffer_geoms, min_level, max_level, order, regions) :
             regions \in {_load_regions(FileContents(geojsonfile), min_level, max_level,
                                        buffer_geoms)} } : TRUE

\* NUTSfinderBenchmark.__init__ after super().__init__(); `base` is the object so far
InitBenchmark(base, order) ==
    IF base.status # "built" THEN base
    ELSE LET tree_rtree == _construct_tree_rtree(base.regions, order)
             tree_rtree_obj == _construct_tree_rtree_obj(base.regions, order)
         IN  IF tree_rtree.status # "ok"
             THEN [base EXCEPT !.status = tree_rtree.status]
             ELSE IF tree_rtree_obj.status # "ok"
             THEN [base EXCEPT !.status = tree_rtree_obj.status, !.tree_rtree = tree_rtree]
             ELSE [base EXCEPT !.tree_rtree = tree_rtree,
                               !.tree_rtree_obj = tree_rtree_obj,
                               !.rtree_obj = _construct_rtree(base.regions, <<>>, TRUE, order)]

\* NUTSfinderBenchmark.__init__
NUTSfinderBenchmark_init(geojsonfile, buffer_geoms, min_level, max_level, order) ==
    CHOOSE result \in
      { InitBenchmark([base EXCEPT !.class = "NUTSfinderBenchmark"], order) :
        base \in {NUTSfinder_init(geojsonfile, buffer_geoms, min_level, max_level, order)} } :
      TRUE

\* ------------------------------------------------------------------ finding
Returned(value) == [status |-> "ok", value |-> value]

Raised(error) == [status |-> error, value |-> <<>>]

\* NUTSfinderBenchmark._find_poly: the regions of `regions` that pass the exact test
_find_poly(lon, lat, regions) ==
    SelectSeq(regions, LAMBDA region : intersects_xy(region.geom, lon, lat))

\* a slip in _validate_candidate_set: only the max_level region is kept, not its parents
RECURSIVE ValidateLoopLeafOnly(_, _, _, _, _, _, _)
ValidateLoopLeafOnly(self, lon, lat, hits, max_levels, i, validated) ==
    IF i > Len(max_levels) THEN np_unique(validated)
    ELSE LET region  == max_levels[i]
             parents == _get_parents(self.tree, region.id)
         IN  IF /\ \A k \in 1..Len(parents) : InList(parents[k], hits)
                /\ intersects_xy(region.geom, lon, lat)
             THEN IF self.buffer = 0
                  THEN validated \o <<region>>
                  ELSE ValidateLoopLeafOnly(self, lon, lat, hits, max_levels, i + 1,
                                            validated \o <<region>>)
             ELSE ValidateLoopLeafOnly(self, lon, lat, hits, max_levels, i + 1, validated)

\* a slip in _validate_candidate_set: the first confirmed chain is returned whatever
\* the buffer
RECURSIVE ValidateLoopFirstChain(_, _, _, _, _, _, _)
ValidateLoopFirstChain(self, lon, lat, hits, max_levels, i, validated) ==
    IF i > Len(max_levels) THEN np_unique(validated)
    ELSE LET region  == max_levels[i]
             parents == _get_parents(self.tree, region.id)
         IN  IF /\ \A k \in 1..Len(parents) : InList(parents[k], hits)
                /\ intersects_xy(region.geom, lon, lat)
             THEN validated \o parents \o <<region>>
             ELSE ValidateLoopFirstChain(self, lon, lat, hits, max_levels, i + 1, validated)

\* the loop of _validate_candidate_set over max_levels[i..]
RECURSIVE ValidateLoop(_, _, _, _, _, _, _)
ValidateLoop(self, lon, lat, hits, max_levels, i, validated) ==
    IF i > Len(max_levels) THEN np_unique(validated)
    ELSE LET region  == max_levels[i]
             parents == _get_parents(self.tree, region.id)
         IN  IF /\ \A k \in 1..Len(parents) : InList(parents[k], hits)
                /\ intersects_xy(region.geom, lon, lat)
             THEN IF self.buffer = 0
                  THEN validated \o parents \o <<region>>
                  ELSE ValidateLoop(self, lon, lat, hits, max_levels, i + 1,
                                    validated \o parents \o <<region>>)
             ELSE ValidateLoop(self, lon, lat, hits, max_levels, i + 1, validated)

\* NUTSfinder._validate_candidate_set
_validate_candidate_set(self, lon, lat, hits) ==
    CHOOSE result \in
      { ValidateLoop(self, lon, lat, hs,
                     SelectSeq(hs, LAMBDA hit : hit.level = self.max_level), 1, <<>>) :
        hs \in {hits} } : TRUE

\* a slip in _maybe_validate: the fast path does not ask for valid_point
_maybe_validate_unasked(self, lon, lat, hits, valid_point, expected_hits, validation_method) ==
    LET expected == IF expected_hits # 0 THEN expected_hits
                    ELSE self.max_level - self.min_level + 1
    IN  IF Len(hits) = expected THEN hits
        ELSE IF validation_method = "_find_poly" THEN _find_poly(lon, lat, hits)
        ELSE _validate_candidate_set(self, lon, lat, hits)

\* a slip in _maybe_validate: the fast path is taken with more candidates than expected
_maybe_validate_atleast(self, lon, lat, hits, valid_point, expected_hits, validation_method) ==
    LET expected == IF expected_hits # 0 THEN expected_hits
                    ELSE self.max_level - self.min_level + 1
    IN  IF valid_point /\ Len(hits) >= expected THEN hits
        ELSE IF validation_method = "_find_poly" THEN _find_poly(lon, lat, hits)
        ELSE _validate_candidate_set(self, lon, lat, hits)

\* NUTSfinder._maybe_validate; expected_hits = 0 stands for None
_maybe_validate(self, lon, lat, hits, valid_point, expected_hits, validation_method) ==
    LET expected == IF expected_hits # 0 THEN expected_hits
                    ELSE self.max_level - self.min_level + 1
    IN  IF valid_point /\ Len(hits) = expected THEN hits
        ELSE IF validation_method = "_find_poly" THEN _find_poly(lon, lat, hits)
        ELSE _validate_candidate_set(self, lon, lat, hits)

\* NUTSfinder._candidates_rtree
_candidates_rtree(self, lon, lat, regions) ==
    LET found == rtree_intersection(self.rtree, lon, lat)
    IN  [k \in 1..Len(found) |-> regions[found[k].id + 1]]

\* NUTSfinder._find_rtree
_find_rtree(self, lon, lat, valid_point) ==
    LET hits == _candidates_rtree(self, lon, lat, self.regions)
    IN  Returned(_maybe_validate(self, lon, lat, hits, valid_point, 0, "_validate_candidate_set"))

\* NUTSfinderBenchmark._find_bbox
_find_bbox(self, lon, lat, regions, valid_point) ==
    LET hits == SelectSeq(regions, LAMBDA region : BboxContains(region.bbox, lon, lat))
    IN  Returned(_maybe_validate(self, lon, lat, hits, valid_point, 0, "_validate_candidate_set"))

\* NUTSfinderBenchmark._find_rtree_obj
_find_rtree_obj(self, lon, lat, valid_point) ==
    LET found == rtree_intersection(self.rtree_obj, lon, lat)
        hits  == [k \in 1..Len(found) |-> found[k].obj]
    IN  Returned(_maybe_validate(self, lon, lat, hits, valid_point, 0, "_validate_candidate_set"))

\* the candidates one level below current_node, per hierarchical method
LevelCandidates(self, method, lon, lat, current_node) ==
    IF method = "tree"
    THEN LET chs == children(self.tree, current_node)
         IN  [k \in 1..Len(chs) |-> chs[k].data]
    ELSE IF method = "tree_rtree"
    THEN LET found == rtree_intersection(get_node(self.tree_rtree, current_node).data, lon, lat)
         IN  [k \in 1..Len(found) |-> self.regions[found[k].id + 1]]
    ELSE LET found == rtree_intersection(get_node(self.tree_rtree_obj, current_node).data, lon, lat)
         IN  [k \in 1..Len(found) |-> found[k].obj]

\* the tree a hierarchical method descends
MethodTree(self, method) ==
    IF method = "tree" THEN self.tree
    ELSE IF method = "tree_rtree" THEN self.tree_rtree
    ELSE self.tree_rtree_obj

\* a slip in the call of _maybe_validate: expected_hits is left at its default
LevelHitsDefaultExpected(self, method, lon, lat, valid_point, current_node) ==
    _maybe_validate(self, lon, lat, LevelCandidates(self, method, lon, lat, current_node),
                    valid_point, 0, "_find_poly")

\* hits = self._maybe_validate(lon, lat, <children of current_node>, valid_point,
\*                             expected_hits=1, validation_method="_find_poly")
LevelHits(self, method, lon, lat, valid_point, current_node) ==
    _maybe_validate(self, lon, lat, LevelCandidates(self, method, lon, lat, current_node),
                    valid_point, 1, "_find_poly")

\* a slip in the while loop: an empty level ends the walk even with valid_point
RECURSIVE DescendNoRaise(_, _, _, _, _, _, _)
DescendNoRaise(self, method, lon, lat, valid_point, current_node, out) ==
    IF children(MethodTree(self, method), current_node) = <<>> THEN Returned(out)
    ELSE CHOOSE result \in
           { IF hits # <<>>
             THEN DescendNoRaise(self, method, lon, lat, valid_point, hits[1].id,
                                 out \o hits)
             ELSE Returned(out \o hits) :
             hits \in {LevelHits(self, method, lon, lat, valid_point, current_node)} } : TRUE

\* the while loop of _find_tree / _find_tree_rtree / _find_tree_rtree_obj
RECURSIVE Descend(_, _, _, _, _, _, _)
Descend(self, method, lon, lat, valid_point, current_node, out) ==
    IF children(MethodTree(self, method), current_node) = <<>> THEN Returned(out)
    ELSE CHOOSE result \in
           { IF hits # <<>>
             THEN Descend(self, method, lon, lat, valid_point, hits[1].id, out \o hits)
             ELSE IF valid_point THEN Raised("ValueError")
             ELSE Returned(out \o hits) :
             hits \in {LevelHits(self, method, lon, lat, valid_point, current_node)} } : TRUE

\* NUTSfinderBenchmark._find_tree
_find_tree(self, lon, lat, valid_point) ==
    Descend(self, "tree", lon, lat, valid_point, Root, <<>>)

\* NUTSfinderBenchmark._find_tree_rtree
_find_tree_rtree(self, lon, lat, valid_point) ==
    Descend(self, "tree_rtree", lon, lat, valid_point, Root, <<>>)

\* NUTSfinderBenchmark._find_tree_rtree_obj
_find_tree_rtree_obj(self, lon, lat, valid_point) ==
    Descend(self, "tree_rtree_obj", lon, lat, valid_point, Root, <<>>)

Methods == {"rtree", "rtree_obj", "tree", "tree_rtree", "tree_rtree_obj", "bbox", "poly"}

\* getattr(self, f"_find_{method}")(lon, lat, self.regions, valid_point=valid_point)
Dispatch(self, method, lon, lat, valid_point) ==
    CASE method = "rtree" -> _find_rtree(self, lon, lat, valid_point)
      [] method = "rtree_obj" -> _find_rtree_obj(self, lon, lat, valid_point)
      [] method = "tree" -> _find_tree(self, lon, lat, valid_point)
      [] method = "tree_rtree" -> _find_tree_rtree(self, lon, lat, valid_point)
      [] method = "tree_rtree_obj" -> _find_tree_rtree_obj(self, lon, lat, valid_point)
      [] method = "bbox" -> _find_bbox(self, lon, lat, self.regions, valid_point)
      [] method = "poly" -> Returned(_find_poly(lon, lat, self.regions))

\* NUTSfinder.find
NUTSfinder_find(self, lon, lat, valid_point) ==
    CHOOSE result \in
      { IF results.status # "ok" THEN results ELSE Returned(sorted(results.value)) :
        results \in {_find_rtree(self, lon, lat, valid_point)} } : TRUE

\* NUTSfinderBenchmark.find
NUTSfinderBenchmark_find(self, lon, lat, method, valid_point) ==
    CHOOSE result \in
      { IF results.status # "ok" THEN results ELSE Returned(sorted(results.value)) :
        results \in {Dispatch(self, method, lon, lat, valid_point)} } : TRUE

\* ------------------------------------------------------------------ download
\* str.upper() / str.lower()
LowerCase ==
    << "a", "b", "c", "d", "e", "f", "g", "h", "i", "j", "k", "l", "m",
       "n", "o", "p", "q", "r", "s", "t", "u", "v", "w", "x", "y", "z" >>

UpperCase ==
    << "A", "B", "C", "D", "E", "F", "G", "H", "I", "J", "K", "L", "M",
       "N", "O", "P", "Q", "R", "S", "T", "U", "V", "W", "X", "Y", "Z" >>

upper(s) ==
    [i \in 1..Len(s) |->
        IF \E k \in 1..26 : LowerCase[k] = s[i]
        THEN UpperCase[CHOOSE k \in 1..26 : LowerCase[k] = s[i]] ELSE s[i]]

lower(s) ==
    [i \in 1..Len(s) |->
        IF \E k \in 1..26 : UpperCase[k] = s[i]
        THEN LowerCase[CHOOSE k \in 1..26 : UpperCase[k] = s[i]] ELSE s[i]]

\* str(n) for n >= 0
RECURSIVE Str(_)
Str(n) == IF n < 10 THEN <<Digits[n + 1]>> ELSE Str(n \div 10) \o <<Digits[(n % 10) + 1]>>

\* f"{n:02d}" for n >= 0
Pad2(n) == IF n < 10 THEN <<"0">> \o Str(n) ELSE Str(n)

\* an optional argument: Nothing is None, Some(v) is the value v
Nothing == <<>>

Some(v) == <<v>>

\* bool(x) of None or a string
bool(x) == x # Nothing /\ x[1] # <<>>

\* the sets of the assertions of get_NUTS_url
GeomTypes == { <<"R", "G">>, <<"B", "N">>, <<"L", "B">> }

Scales == {1, 3, 10, 20, 60}

Years == {2024, 2021, 2016, 2013, 2010, 2006, 2003}

Formats == { <<"g", "e", "o", "j", "s", "o", "n">>, <<"p", "b", "f">>, <<"s", "h", "p">>, <<"s", "v", "g">>, <<"t", "o", "p", "o", "j", "s", "o", "n">> }

Epsgs == {4326, 3035, 3857}

UrlLevels == {0, 1, 2, 3}

base_url ==
    << "h", "t", "t", "p", "s", ":", "/", "/", "g", "i", "s", "c", "o", "-", "s", "e",
       "r", "v", "i", "c", "e", "s", ".", "e", "c", ".", "e", "u", "r", "o", "p", "a",
       ".", "e", "u", "/", "d", "i", "s", "t", "r", "i", "b", "u", "t", "i", "o", "n",
       "/", "v", "2", "/", "n", "u", "t", "s" >>

\* a slip in get_NUTS_url: the EPSG id is written before the year
get_NUTS_url_swapped(geomtype, scale, year, format, epsg, level) ==
    LET gt  == upper(geomtype)
        fmt == lower(format)
    IN  IF ~(/\ gt \in GeomTypes /\ scale \in Scales /\ year \in Years
             /\ fmt \in Formats /\ epsg \in Epsgs
             /\ (level # Nothing => level[1] \in UrlLevels))
        THEN [status |-> "AssertionError", filename |-> <<>>, url |-> <<>>]
        ELSE LET suffix   == IF level # Nothing
                             THEN <<"_", "L", "E", "V", "L", "_">> \o Str(level[1]) ELSE <<>>
                 filename == <<"N", "U", "T", "S", "_">> \o gt \o <<"_">> \o Pad2(scale) \o <<"M", "_">> \o Str(epsg)
                             \o <<"_">> \o Str(year) \o suffix \o <<".">>
                             \o (IF fmt # <<"t", "o", "p", "o", "j", "s", "o", "n">> THEN fmt ELSE <<"j", "s", "o", "n">>)
             IN  [status |-> "ok", filename |-> filename,
                  url |-> base_url \o <<"/">> \o fmt \o <<"/">> \o filename]

\* download.get_NUTS_url; when it raises, no file name and no url are returned
get_NUTS_url(geomtype, scale, year, format, epsg, level) ==
    LET gt  == upper(geomtype)
        fmt == lower(format)
    IN  IF ~(/\ gt \in GeomTypes /\ scale \in Scales /\ year \in Years
             /\ fmt \in Formats /\ epsg \in Epsgs
             /\ (level # Nothing => level[1] \in UrlLevels))
        THEN [status |-> "AssertionError", filename |-> <<>>, url |-> <<>>]
        ELSE LET suffix   == IF level # Nothing
                             THEN <<"_", "L", "E", "V", "L", "_">> \o Str(level[1]) ELSE <<>>
                 filename == <<"N", "U", "T", "S", "_">> \o gt \o <<"_">> \o Pad2(scale) \o <<"M", "_">> \o Str(year)
                             \o <<"_">> \o Str(epsg) \o suffix \o <<".">>
                             \o (IF fmt # <<"t", "o", "p", "o", "j", "s", "o", "n">> THEN fmt ELSE <<"j", "s", "o", "n">>)
             IN  [status |-> "ok", filename |-> filename,
                  url |-> base_url \o <<"/">> \o fmt \o <<"/">> \o filename]

\* os.path.join(datadir, name) for a relative name
path_join(datadir, name) ==
    IF datadir = <<>> \/ datadir[Len(datadir)] = "/" THEN datadir \o name
    ELSE datadir \o <<"/">> \o name

\* the outcome of a download: what was raised, the file returned (none when raised),
\* the urls opened and the files written
Outcome(status, file, opened, written) ==
    [status |-> status, file |-> file, opened |-> opened, written |-> written]

\* download_NUTS from urllib.request.urlopen(url) on; `reachable` is whether the
\* server answers
Fetch(datadir, filename, got, reachable) ==
    IF ~reachable THEN Outcome("URLError", <<>>, <<got.url>>, <<>>)
    ELSE IF datadir = Nothing THEN Outcome("TypeError", <<>>, <<got.url>>, <<>>)
    ELSE LET file == path_join(datadir[1],
                               IF bool(filename) THEN filename[1] ELSE got.filename)
         IN  Outcome("ok", file, <<got.url>>, <<file>>)

\* a slip in download_NUTS: datadir and filename are asserted after the download
download_NUTS_late(datadir, filename, scale, year, epsg, level, reachable) ==
    CHOOSE result \in
      { IF got.status # "ok" THEN Outcome(got.status, <<>>, <<>>, <<>>)
        ELSE IF bool(datadir) = bool(filename)
        THEN Outcome("AssertionError", <<>>, <<got.url>>, <<>>)
        ELSE Fetch(datadir, filename, got, reachable) :
        got \in {get_NUTS_url(<<"R", "G">>, scale, year, <<"g", "e", "o", "j", "s", "o", "n">>, epsg, level)} } : TRUE

\* download.download_NUTS
download_NUTS(datadir, filename, scale, year, epsg, level, reachable) ==
    IF bool(datadir) = bool(filename) THEN Outcome("AssertionError", <<>>, <<>>, <<>>)
    ELSE CHOOSE result \in
           { IF got.status # "ok" THEN Outcome(got.status, <<>>, <<>>, <<>>)
             ELSE Fetch(datadir, filename, got, reachable) :
             got \in {get_NUTS_url(<<"R", "G">>, scale, year, <<"g", "e", "o", "j", "s", "o", "n">>, epsg, level)} } : TRUE

\* ------------------------------------------------------------------ the state machine
NoCall == [method |-> "none", lon |-> 0, lat |-> 0, valid_point |-> FALSE]

NoRet == [status |-> "none", value |-> <<>>]

NoDl == [op |-> "none", args |-> <<>>, result |-> <<>>]

\* the threads that call find on one finder
NumThreads == 2

Threads == 1..NumThreads

\* a slip: `hits` is kept on the finder, one slot for all threads
FrameOnSelf(t) == 1

\* where a call of thread t keeps `hits`: a local variable of its own frame
Frame(t) == t

\* a thread outside find
Idle == [pc |-> "idle", lon |-> 0, lat |-> 0, valid_point |-> FALSE, ret |-> NoRet]

NoThreads == [at |-> [t \in Threads |-> Idle], hits |-> [t \in Threads |-> <<>>]]

Init ==
    /\ finder = NoFinder
    /\ call = NoCall
    /\ ret = NoRet
    /\ dl = NoDl
    /\ threads = NoThreads

\* nf = NUTSfinder(file, buffer_geoms=b, min_level=lo, max_level=hi)
ConstructFinder ==
    /\ finder.status = "none"
    /\ \E b \in Buffers, lo \in Levels, hi \in Levels, order \in Orders :
          finder' = NUTSfinder_init(FileName, b, lo, hi, order)
    /\ UNCHANGED <<call, ret, dl, threads>>

\* nfb = NUTSfinderBenchmark(file, buffer_geoms=b, min_level=lo, max_level=hi)
ConstructBenchmark ==
    /\ finder.status = "none"
    /\ \E b \in Buffers, lo \in Levels, hi \in Levels, order \in Orders :
          finder' = NUTSfinderBenchmark_init(FileName, b, lo, hi, order)
    /\ UNCHANGED <<call, ret, dl, threads>>

\* nf.find(lon, lat, valid_point=v)
Find ==
    /\ finder.status = "built" /\ finder.class = "NUTSfinder"
    /\ call = NoCall
    /\ \E p \in Points, v \in BOOLEAN :
          /\ call' = [method |-> "find", lon |-> p[1], lat |-> p[2], valid_point |-> v]
          /\ ret' = NUTSfinder_find(finder, p[1], p[2], v)
    /\ UNCHANGED <<finder, dl, threads>>

\* nfb.find(lon, lat, method=m, valid_point=v)
FindBenchmark ==
    /\ finder.status = "built" /\ finder.class = "NUTSfinderBenchmark"
    /\ call = NoCall
    /\ \E p \in Points, v \in BOOLEAN, m \in Methods :
          /\ call' = [method |-> m, lon |-> p[1], lat |-> p[2], valid_point |-> v]
          /\ ret' = NUTSfinderBenchmark_find(finder, p[1], p[2], m, v)
    /\ UNCHANGED <<finder, dl, threads>>

\* the caller takes the result (or the exception); the finder is ready for the next call
Return ==
    /\ call # NoCall
    /\ call' = NoCall
    /\ ret' = NoRet
    /\ UNCHANGED <<finder, dl, threads>>

\* the caller drops the finder, or the object whose construction failed
Drop ==
    /\ finder.status # "none"
    /\ call = NoCall
    /\ finder' = NoFinder
    /\ UNCHANGED <<call, ret, dl, threads>>

Next ==
    \/ ConstructFinder
    \/ ConstructBenchmark
    \/ Find
    \/ FindBenchmark
    \/ Return
    \/ Drop

Spec == Init /\ [][Next]_vars

\* ------------------------------------------------------------------ downloading
\* the arguments the callers try: the supported values and some others
GeomTypesTried == GeomTypes \cup { <<"r", "g">>, <<"X", "X">> }

ScalesTried == Scales \cup {2}

YearsTried == {2003, 2021, 2024, 1999}

FormatsTried == { <<"g", "e", "o", "j", "s", "o", "n">>, <<"G", "e", "o", "J", "S", "O", "N">>, <<"t", "o", "p", "o", "j", "s", "o", "n">>, <<"s", "v", "g">>, <<"c", "s", "v">> }

EpsgsTried == Epsgs \cup {3036}

UrlLevelsTried == {Nothing, Some(0), Some(3), Some(-1), Some(6)}

DatadirsTried == { Nothing, Some(<<>>), Some(<<"d", "a", "t", "a">>) }

FilenamesTried ==
    { Nothing, Some(<<>>),
      Some(<<"n", "u", "t", "s", ".", "g", "e", "o", "j", "s", "o", "n">>) }

\* filename, url = get_NUTS_url(geomtype, scale, year, format, epsg, level)
GetUrl ==
    /\ dl = NoDl
    /\ \E geomtype \in GeomTypesTried, scale \in ScalesTried, year \in YearsTried,
          format \in FormatsTried, epsg \in EpsgsTried, level \in UrlLevelsTried :
          dl' = [op |-> "get_NUTS_url",
                 args |-> [geomtype |-> geomtype, scale |-> scale, year |-> year,
                           format |-> format, epsg |-> epsg, level |-> level],
                 result |-> get_NUTS_url(geomtype, scale, year, format, epsg, level)]
    /\ UNCHANGED <<finder, call, ret, threads>>

\* file = download_NUTS(datadir, filename, scale, year, epsg, level)
Download ==
    /\ dl = NoDl
    /\ \E datadir \in DatadirsTried, filename \in FilenamesTried, scale \in ScalesTried,
          year \in YearsTried, epsg \in EpsgsTried, level \in UrlLevelsTried,
          reachable \in BOOLEAN :
          dl' = [op |-> "download_NUTS",
                 args |-> [datadir |-> datadir, filename |-> filename, scale |-> scale,
                           year |-> year, epsg |-> epsg, level |-> level],
                 result |-> download_NUTS(datadir, filename, scale, year, epsg, level,
                                          reachable)]
    /\ UNCHANGED <<finder, call, ret, threads>>

\* the caller takes the result (or the exception)
DlReturn ==
    /\ dl # NoDl
    /\ dl' = NoDl
    /\ UNCHANGED <<finder, call, ret, threads>>

NextDownload ==
    \/ GetUrl
    \/ Download
    \/ DlReturn

SpecDownload == Init /\ [][NextDownload]_vars

\* ------------------------------------------------------------------ files
\* the files finders are built from: the full file and its copies lacking one region
FilesTried == {FileName} \cup { FileWithout(Features[i].id) : i \in 1..Len(Features) }

\* nf = NUTSfinder(file, buffer_geoms=b, min_level=lo, max_level=hi)
ConstructFinderFrom ==
    /\ finder.status = "none"
    /\ \E file \in FilesTried, b \in Buffers, lo \in Levels, hi \in Levels,
          order \in Orders :
          finder' = NUTSfinder_init(file, b, lo, hi, order)
    /\ UNCHANGED <<call, ret, dl, threads>>

\* nfb = NUTSfinderBenchmark(file, buffer_geoms=b, min_level=lo, max_level=hi)
ConstructBenchmarkFrom ==
    /\ finder.status = "none"
    /\ \E file \in FilesTried, b \in Buffers, lo \in Levels, hi \in Levels,
          order \in Orders :
          finder' = NUTSfinderBenchmark_init(file, b, lo, hi, order)
    /\ UNCHANGED <<call, ret, dl, threads>>

\* nf._get_parents(id) for the id of a region of the tree
GetParents ==
    /\ finder.status = "built"
    /\ call = NoCall
    /\ \E i \in 1..Len(finder.regions) :
          /\ call' = [method |-> "_get_parents", id |-> finder.regions[i].id,
                      level |-> finder.regions[i].level]
          /\ ret' = Returned(_get_parents(finder.tree, finder.regions[i].id))
    /\ UNCHANGED <<finder, dl, threads>>

\* the caller takes the list of parents
TakeParents ==
    /\ call # NoCall
    /\ call' = NoCall
    /\ ret' = NoRet
    /\ UNCHANGED <<finder, dl, threads>>

\* the caller drops what the constructor left
DropFrom ==
    /\ finder.status # "none"
    /\ call = NoCall
    /\ finder' = NoFinder
    /\ UNCHANGED <<call, ret, dl, threads>>

NextFiles ==
    \/ ConstructFinderFrom
    \/ ConstructBenchmarkFrom
    \/ GetParents
    \/ TakeParents
    \/ DropFrom

SpecFiles == Init /\ [][NextFiles]_vars

\* ------------------------------------------------------------------ threads
\* the points the threads ask for: on a boundary shared by two leaves, and inside
\* one leaf
ThreadCalls == { <<6, 2, FALSE>>, <<5, 2, TRUE>> }

\* nf = NUTSfinder(file, buffer_geoms=b), shared by the threads
ThConstruct ==
    /\ finder.status = "none"
    /\ \E b \in Buffers, order \in Orders :
          finder' = NUTSfinder_init(FileName, b, 0, MaxNutsLevel, order)
    /\ UNCHANGED <<call, ret, dl, threads>>

\* thread t enters nf.find(lon, lat, valid_point=v):
\* hits = self._candidates_rtree(lon, lat, self.regions)
ThCall(t) ==
    /\ finder.status = "built"
    /\ threads.at[t].pc = "idle"
    /\ \E p \in ThreadCalls :
          threads' = [threads EXCEPT
                        !.at[t] = [pc |-> "_maybe_validate", lon |-> p[1], lat |-> p[2],
                                   valid_point |-> p[3], ret |-> NoRet],
                        !.hits[Frame(t)] = _candidates_rtree(finder, p[1], p[2],
                                                             finder.regions)]
    /\ UNCHANGED <<finder, call, ret, dl>>

\* hits = self._maybe_validate(lon, lat, hits, valid_point)
ThValidate(t) ==
    /\ threads.at[t].pc = "_maybe_validate"
    /\ threads' = [threads EXCEPT
                     !.at[t].pc = "sorted",
                     !.hits[Frame(t)] = _maybe_validate(finder, threads.at[t].lon,
                                                        threads.at[t].lat,
                                                        threads.hits[Frame(t)],
                                                        threads.at[t].valid_point, 0,
                                                        "_validate_candidate_set")]
    /\ UNCHANGED <<finder, call, ret, dl>>

\* results = sorted(results); return results
ThSorted(t) ==
    /\ threads.at[t].pc = "sorted"
    /\ threads' = [threads EXCEPT
                     !.at[t].pc = "done",
                     !.at[t].ret = Returned(sorted(threads.hits[Frame(t)])),
                     !.hits[Frame(t)] = <<>>]
    /\ UNCHANGED <<finder, call, ret, dl>>

\* the caller in thread t takes the result
ThReturn(t) ==
    /\ threads.at[t].pc = "done"
    /\ threads' = [threads EXCEPT !.at[t] = Idle]
    /\ UNCHANGED <<finder, call, ret, dl>>

NextThreads ==
    \/ ThConstruct
    \/ \E t \in Threads : ThCall(t)
    \/ \E t \in Threads : ThValidate(t)
    \/ \E t \in Threads : ThSorted(t)
    \/ \E t \in Threads : ThReturn(t)

SpecThreads == Init /\ [][NextThreads]_vars

\* ------------------------------------------------------------------ properties
\* a call has been answered by a built finder
Answered == finder.status = "built" /\ call # NoCall

Ids(s) == [i \in 1..Len(s) |-> s[i].id]

\* the loaded regions that pass the exact test at the point of the call
ExactHits == { r \in Range(finder.regions) : intersects_xy(r.geom, call.lon, call.lat) }

\* the loaded regions whose bbox contains the point of the call
BboxHits == { r \in Range(finder.regions) : BboxContains(r.bbox, call.lon, call.lat) }

\* the point and its eight lattice neighbours lie in the geometry
StrictlyInside(geom, lon, lat) ==
    \A dx \in -1..1, dy \in -1..1 : intersects_xy(geom, lon + dx, lat + dy)

\* id with its last k characters stripped
RECURSIVE StripK(_, _)
StripK(id, k) == IF k = 0 THEN id ELSE StripK(StripLast(id), k - 1)

\* C1: every strategy of NUTSfinderBenchmark.find returns, for every query point,
\* the same ordered list as method "poly" (valid_point left at its default).
C1_StrategiesAgreeWithPoly ==
    ( /\ Answered
      /\ finder.class = "NUTSfinderBenchmark"
      /\ call.method \in Methods \ {"poly"}
      /\ ~call.valid_point )
    => /\ ret.status = "ok"
       /\ Ids(ret.value) =
            Ids(NUTSfinderBenchmark_find(finder, call.lon, call.lat, "poly", FALSE).value)

\* C2: without buffer, for a point strictly inside a max_level region,
\* NUTSfinder.find returns max_level - min_level + 1 regions, one per level from
\* min_level to max_level, each the parent (id minus last character) of the next.
C2_InteriorPointChain ==
    ( /\ Answered
      /\ call.method = "find"
      /\ finder.buffer = 0
      /\ \E r \in Range(finder.regions) :
            r.level = finder.max_level /\ StrictlyInside(r.geom, call.lon, call.lat) )
    => /\ ret.status = "ok"
       /\ Len(ret.value) = finder.max_level - finder.min_level + 1
       /\ \A i \in 1..Len(ret.value) : ret.value[i].level = finder.min_level + i - 1
       /\ \A i \in 1..(Len(ret.value) - 1) : ret.value[i].id = StripLast(ret.value[i + 1].id)

C2_Witness ==
    /\ Answered
    /\ call.method = "find"
    /\ finder.buffer = 0
    /\ finder.min_level = 0 /\ finder.max_level = MaxNutsLevel
    /\ \E r \in Range(finder.regions) :
          r.level = finder.max_level /\ StrictlyInside(r.geom, call.lon, call.lat)
    /\ Len(ret.value) = MaxNutsLevel + 1

\* C3 as stated: for a point that fails the exact test of every loaded region, find
\* returns the empty list under every strategy, whatever the call's valid_point.
C3_OutsideEmptyAnyFlag ==
    (Answered /\ ExactHits = {}) => ret = Returned(<<>>)

\* C3 amended: for a point that fails the exact test of every loaded region, find
\* called with valid_point=False returns the empty list under every strategy,
\* whatever bbox candidates the index or the bbox scan produced.
C3_OutsideEmpty ==
    (Answered /\ ~call.valid_point /\ ExactHits = {}) => ret = Returned(<<>>)

\* bbox candidates that pass the hierarchy filter, for a point outside every region
C3_Witness ==
    /\ Answered
    /\ ~call.valid_point
    /\ ExactHits = {}
    /\ \E r \in BboxHits :
          /\ r.level = finder.max_level
          /\ r.level > finder.min_level
          /\ \A k \in 1..(r.level - finder.min_level) :
                \E a \in BboxHits : a.id = StripK(r.id, k)
    /\ ret = Returned(<<>>)

\* C4: in every result of find, every returned region above min_level has all its
\* ancestors (its id stripped of 1, 2, ... characters down to min_level) in the result.
C4_AncestorsReturned ==
    (Answered /\ ret.status = "ok")
    => \A i \in 1..Len(ret.value) :
          \A k \in 1..(ret.value[i].level - finder.min_level) :
             \E j \in 1..Len(ret.value) : ret.value[j].id = StripK(ret.value[i].id, k)

C4_Witness ==
    /\ Answered
    /\ ret.status = "ok"
    /\ ~call.valid_point
    /\ call.method \in {"find", "rtree"}
    /\ \E i \in 1..Len(ret.value) : ret.value[i].level >= finder.min_level + 2

\* strictly ascending by (level, id)
Ascending(s) ==
    \A i \in 1..(Len(s) - 1) :
       \/ s[i].level < s[i + 1].level
       \/ s[i].level = s[i + 1].level /\ StrLt(s[i].id, s[i + 1].id)

\* C5: every list returned by find, and the finder's stored region list, is sorted
\* ascending by (level, id).
C5_SortedByLevelId ==
    /\ (finder.regions # None) => Ascending(finder.regions)
    /\ (Answered /\ ret.status = "ok") => Ascending(ret.value)

\* a result with two regions of one level
C5_Witness ==
    /\ Answered
    /\ ret.status = "ok"
    /\ \E i \in 1..(Len(ret.value) - 1) : ret.value[i].level = ret.value[i + 1].level
    /\ \E i \in 1..(Len(ret.value) - 1) : ret.value[i].level < ret.value[i + 1].level

\* the finder of the answered call, constructed again with another buffer or with
\* indexes of another yield order
Rebuilt(buffer, order) ==
    IF finder.class = "NUTSfinder"
    THEN NUTSfinder_init(finder.file, buffer, finder.min_level, finder.max_level, order)
    ELSE NUTSfinderBenchmark_init(finder.file, buffer, finder.min_level, finder.max_level,
                                  order)

\* the answered call, made on the finder self
Recall(self) ==
    IF call.method = "find"
    THEN NUTSfinder_find(self, call.lon, call.lat, call.valid_point)
    ELSE NUTSfinderBenchmark_find(self, call.lon, call.lat, call.method, call.valid_point)

\* C6: for a fixed region file, configuration and query, find returns the same
\* ordered result for every order in which the index yields its candidates.
C6_YieldOrderIndependent ==
    Answered => \A order \in Orders : \A self \in {Rebuilt(finder.buffer, order)} :
                    Recall(self) = ret

\* __init__ has set none of the fields it reads from the file, and built no index
NothingLoaded ==
    /\ finder.file = None /\ finder.regions = None
    /\ finder.tree = None /\ finder.rtree = None
    /\ finder.tree_rtree = None /\ finder.tree_rtree_obj = None /\ finder.rtree_obj = None
    /\ finder.scale = None /\ finder.year = None /\ finder.crs = None
    /\ finder.buffer = None /\ finder.min_level = None /\ finder.max_level = None

\* C7: constructing a finder with min_level > max_level ends in AssertionError with
\* no file name parsed, no region loaded and no index built; no finder is produced.
C7_LevelAssertion ==
    (finder.args # None /\ finder.args.min_level > finder.args.max_level)
    => /\ finder.status = "AssertionError"
       /\ NothingLoaded
       /\ ~ENABLED Find /\ ~ENABLED FindBenchmark

C7_Witness ==
    /\ finder.status = "AssertionError"
    /\ finder.class = "NUTSfinderBenchmark"
    /\ finder.args.min_level = MaxNutsLevel /\ finder.args.max_level = 0

HierarchicalMethods == {"tree", "tree_rtree", "tree_rtree_obj"}

\* C8 as stated: a call of find with valid_point=True never returns the empty list,
\* under any strategy.
C8_NeverEmptyWhenValid ==
    (Answered /\ call.valid_point) => ret # Returned(<<>>)

\* C8 amended: a call of find with valid_point=True under a hierarchical strategy
\* (tree, tree_rtree, tree_rtree_obj) either raises ValueError, when some level
\* yields no region, or returns a region of every level; never the empty list.
C8_HierarchicalRaises ==
    (Answered /\ call.valid_point /\ call.method \in HierarchicalMethods)
    => \/ ret = Raised("ValueError")
       \/ /\ ret.status = "ok"
          /\ \A l \in finder.min_level..finder.max_level :
                \E i \in 1..Len(ret.value) : ret.value[i].level = l

\* no region contains the point, though a bbox does
C8_Witness ==
    /\ Answered
    /\ call.valid_point
    /\ call.method \in HierarchicalMethods
    /\ finder.max_level > 0
    /\ ExactHits = {}
    /\ BboxHits # {}
    /\ ret = Raised("ValueError")

FlatMethods == {"find", "rtree", "rtree_obj", "bbox"}

\* the max_level bbox candidates whose ancestors are all bbox candidates and which
\* pass the exact test
ConfirmedLeaves ==
    { r \in BboxHits :
        /\ r.level = finder.max_level
        /\ \A k \in 1..(r.level - finder.min_level) :
              \E a \in BboxHits : a.id = StripK(r.id, k)
        /\ intersects_xy(r.geom, call.lon, call.lat) }

\* the exact test is not skipped: valid_point is not set or the number of
\* candidates is not the expected one
ValidationRuns ==
    ~(call.valid_point /\ Cardinality(BboxHits) = finder.max_level - finder.min_level + 1)

\* C9: with a positive buffer, when validation runs, the flat strategy returns
\* exactly the confirmed max_level candidates and their ancestors, each once.
C9_AllChainsCollected ==
    ( /\ Answered
      /\ call.method \in FlatMethods
      /\ finder.buffer > 0
      /\ ValidationRuns )
    => /\ ret.status = "ok"
       /\ Range(Ids(ret.value)) =
            { StripK(r.id, k) : r \in ConfirmedLeaves,
                                k \in 0..(finder.max_level - finder.min_level) }
       /\ \A i, j \in 1..Len(ret.value) : ret.value[i].id = ret.value[j].id => i = j

\* two confirmed chains that share an ancestor
C9_Witness ==
    /\ Answered
    /\ call.method \in FlatMethods
    /\ finder.buffer > 0
    /\ ValidationRuns
    /\ finder.max_level > finder.min_level
    /\ \E r1, r2 \in ConfirmedLeaves : r1 # r2 /\ StripLast(r1.id) = StripLast(r2.id)
    /\ \E r1, r2 \in ConfirmedLeaves : StripLast(r1.id) # StripLast(r2.id)
    /\ ret.status = "ok"

\* C10: every region find returns on the finder built with buffer 0 is returned, for
\* the same query, on the finder built from the same file with a positive buffer.
C10_BufferKeepsRegions ==
    (Answered /\ finder.buffer = 0 /\ ret.status = "ok")
    => \A b \in 1..MaxBuffer : \A self \in {Rebuilt(b, finder.rtree.order)} :
          /\ Recall(self).status = "ok"
          /\ Range(Ids(ret.value)) \subseteq Range(Ids(Recall(self).value))

\* several regions of one level pass the exact test at the point of the call
SharedBoundary == \E r1, r2 \in ExactHits : r1.level = r2.level /\ r1.id # r2.id

\* the returned region ret.value[i] lies on a returned chain that has a region at
\* every level from min_level to max_level
OnFullChain(i) ==
    \E j \in 1..Len(ret.value) :
       /\ ret.value[j].level = finder.max_level
       /\ ret.value[i].level <= finder.max_level
       /\ ret.value[i].id = StripK(ret.value[j].id, finder.max_level - ret.value[i].level)
       /\ \A k \in 0..(finder.max_level - finder.min_level) :
             \E a \in 1..Len(ret.value) : ret.value[a].id = StripK(ret.value[j].id, k)

\* C11: at a point on a boundary shared by several regions of one level, the result
\* of find under every strategy is a union of full chains: every returned region
\* lies on a returned chain with one region at each level min_level..max_level.
C11_NoPartialChain ==
    (Answered /\ SharedBoundary /\ ret.status = "ok")
    => \A i \in 1..Len(ret.value) : OnFullChain(i)

\* the arguments of the request are all supported
Supported(args) ==
    /\ args.scale \in Scales /\ args.year \in Years /\ args.epsg \in Epsgs
    /\ (args.level # Nothing => args.level[1] \in UrlLevels)
    /\ (dl.op = "get_NUTS_url"
          => upper(args.geomtype) \in GeomTypes /\ lower(args.format) \in Formats)

\* C12: a URL or download request with an unsupported geometry kind, scale, year,
\* format, CRS id or level fails with AssertionError; in download_NUTS this failure,
\* and the failure for giving both or neither of datadir and filename, happens
\* before the URL is opened or a file is written.
C12_AssertBeforeNetwork ==
    /\ (dl.op = "get_NUTS_url" /\ ~Supported(dl.args))
          => dl.result.status = "AssertionError"
    /\ ( /\ dl.op = "download_NUTS"
         /\ (~Supported(dl.args) \/ bool(dl.args.datadir) = bool(dl.args.filename)) )
          => dl.result = Outcome("AssertionError", <<>>, <<>>, <<>>)

\* a download into a directory, of an unsupported scale, from a server that answers
C12_Witness ==
    /\ dl.op = "download_NUTS"
    /\ bool(dl.args.datadir) /\ ~bool(dl.args.filename)
    /\ dl.args.scale \notin Scales
    /\ dl.args.year \in Years /\ dl.args.epsg \in Epsgs /\ dl.args.level = Nothing
    /\ dl.result.status = "AssertionError"
    /\ dl.result.opened = <<>>

\* C13 as stated: for every combination get_NUTS_url accepts, _parse_filename of the
\* file name it produces returns that scale, year and CRS id.
C13_FilenameRoundTrip ==
    (dl.op = "get_NUTS_url" /\ dl.result.status = "ok")
    => _parse_filename(dl.result.filename) =
          [status |-> "ok", scale |-> dl.args.scale, year |-> dl.args.year,
           crs |-> dl.args.epsg]

\* C13 amended: for every combination with geometry kind RG (in any case) that
\* get_NUTS_url accepts, _parse_filename of the file name it produces returns that
\* scale, year and CRS id.
C13_RegionFilenameRoundTrip ==
    ( /\ dl.op = "get_NUTS_url"
      /\ dl.result.status = "ok"
      /\ upper(dl.args.geomtype) = <<"R", "G">> )
    => _parse_filename(dl.result.filename) =
          [status |-> "ok", scale |-> dl.args.scale, year |-> dl.args.year,
           crs |-> dl.args.epsg]

\* a one-digit scale, a level suffix and an extension that differs from the format
C13_Witness ==
    /\ dl.op = "get_NUTS_url"
    /\ dl.result.status = "ok"
    /\ dl.args.geomtype = <<"r", "g">>
    /\ dl.args.scale = 3
    /\ dl.args.level = Some(3)
    /\ lower(dl.args.format) = <<"t", "o", "p", "o", "j", "s", "o", "n">>
    /\ _parse_filename(dl.result.filename).status = "ok"

\* C14: under any interleaving of find calls of several threads on one finder, each
\* call returns what it returns when run alone, and the finder (region list, tree,
\* index) stays as construction built it.
C14_ThreadsIndependent ==
    [][ /\ \A t \in Threads :
             /\ (threads.at[t].pc # "done" /\ threads'.at[t].pc = "done")
                => threads'.at[t].ret = NUTSfinder_find(finder', threads'.at[t].lon,
                                                        threads'.at[t].lat,
                                                        threads'.at[t].valid_point)
             /\ (threads.at[t].pc = "done" /\ threads'.at[t].pc = "done")
                => threads'.at[t] = threads.at[t]
        /\ finder.status = "built" => finder' = finder ]_vars

C14_Witness ==
    \E t, u \in Threads :
       /\ threads.at[t].pc = "done" /\ threads.at[t].ret.value # <<>>
       /\ threads.at[u].pc = "sorted"
       /\ <<threads.at[u].lon, threads.at[u].lat>> # <<threads.at[t].lon, threads.at[t].lat>>
       /\ threads.hits[Frame(u)] # <<>>
       /\ threads.hits[Frame(u)] # threads.at[t].ret.value

\* the regions _load_regions gives a finder of these arguments
Loaded(self) ==
    _load_regions(FileContents(self.file), self.min_level, self.max_level, self.buffer)

\* the loaded regions above min_level whose id minus the last character is the id of
\* no loaded region
Orphans(regions, min_level) ==
    { i \in 1..Len(regions) :
        /\ regions[i].level > min_level
        /\ \A k \in 1..Len(regions) : regions[k].id # StripLast(regions[i].id) }

\* the constructor got as far as loading the regions
RegionsLoaded ==
    finder.status \in {"built", "NodeIDAbsentError", "DuplicatedNodeIdError"}

\* every loaded region is a node of `tree`, under the node of its id minus the last
\* character, or under the root if it is a min_level region
AllHung(tree, regions, min_level) ==
    \A i \in 1..Len(regions) :
       \E n \in 1..Len(tree.nodes) :
          /\ tree.nodes[n].identifier = regions[i].id
          /\ tree.nodes[n].parent = IF regions[i].level = min_level THEN Root
                                    ELSE StripLast(regions[i].id)

\* C15: when a loaded region above min_level has no loaded parent, construction ends
\* in an error and no finder is produced; a finder that is produced holds every loaded
\* region in its tree, under its own parent.
C15_MissingParentFails ==
    RegionsLoaded =>
       CHOOSE result \in
         { /\ Orphans(regions, finder.min_level) # {} => finder.status # "built"
           /\ finder.status = "built"
              => /\ finder.regions = regions
                 /\ AllHung(finder.tree, regions, finder.min_level) :
           regions \in {Loaded(finder)} } : TRUE

C15_Witness ==
    /\ finder.status = "NodeIDAbsentError"
    /\ finder.class = "NUTSfinder"
    /\ finder.min_level = 0 /\ finder.max_level = MaxNutsLevel
    /\ finder.file = FileWithout(<<"D", "E", "1">>)
    /\ Orphans(Loaded(finder), 0) # {}

\* the candidates that pass the hierarchy filter: the max_level candidates all of whose
\* ancestors are candidates, together with those ancestors
Survivors ==
    { r \in BboxHits :
        \E leaf \in BboxHits :
           /\ leaf.level = finder.max_level
           /\ \A k \in 1..(leaf.level - finder.min_level) :
                 \E a \in BboxHits : a.id = StripK(leaf.id, k)
           /\ \E k \in 0..(leaf.level - finder.min_level) : r.id = StripK(leaf.id, k) }

\* s is one full ancestor chain: one region per level from min_level to max_level,
\* each the parent of the next
FullChain(s) ==
    /\ Len(s) = finder.max_level - finder.min_level + 1
    /\ \A i \in 1..Len(s) : s[i].level = finder.min_level + i - 1
    /\ \A i \in 1..(Len(s) - 1) : s[i].id = StripLast(s[i + 1].id)

\* a flat strategy has answered
FlatAnswered ==
    Answered /\ call.method \in FlatMethods /\ ret.status = "ok"

\* C16 as stated: a flat strategy skips the exact test only when valid_point is asserted
\* and the candidates that survive the hierarchy filter number max_level - min_level + 1,
\* so what is returned untested is one full ancestor chain.
C16_SkippedOnSurvivorCount ==
    (FlatAnswered /\ ~ValidationRuns)
    => /\ call.valid_point
       /\ Cardinality(Survivors) = finder.max_level - finder.min_level + 1
       /\ FullChain(ret.value)

\* C16: a flat strategy skips the exact test exactly when valid_point is asserted and
\* the bounding-box candidates (unfiltered) number max_level - min_level + 1: then all
\* of them are returned, otherwise every max_level region returned passes the exact
\* test; when the point lies in a max_level candidate whose ancestors are candidates,
\* what is returned untested is one full ancestor chain.
C16_SkippedOnCandidateCount ==
    FlatAnswered
    => /\ ~ValidationRuns => Range(Ids(ret.value)) = { r.id : r \in BboxHits }
       /\ ValidationRuns
          => \A i \in 1..Len(ret.value) :
                ret.value[i].level = finder.max_level
                => intersects_xy(ret.value[i].geom, call.lon, call.lat)
       /\ (~ValidationRuns /\ ConfirmedLeaves # {}) => FullChain(ret.value)

C16_Witness ==
    /\ FlatAnswered
    /\ ~ValidationRuns
    /\ Survivors = {}
    /\ Len(ret.value) = 2
    /\ ret.value[1].level = ret.value[2].level

\* C17: for min_level <= max_level and a region set in which every region above
\* min_level has its parent loaded, construction ends without error, and in the region
\* tree and in the benchmark finder's two trees of spatial indexes every min_level
\* region hangs under the root and every other region under its id minus the last
\* character.
C17_TreesBuilt ==
    (RegionsLoaded /\ Orphans(Loaded(finder), finder.min_level) = {})
    => /\ finder.status = "built"
       /\ AllHung(finder.tree, finder.regions, finder.min_level)
       /\ finder.class = "NUTSfinderBenchmark"
          => /\ AllHung(finder.tree_rtree, finder.regions, finder.min_level)
             /\ AllHung(finder.tree_rtree_obj, finder.regions, finder.min_level)

\* _get_parents has answered for the id of a region of the tree
ParentsAnswered == finder.status = "built" /\ call # NoCall /\ call.method = "_get_parents"

\* C18: for every region id of the tree, _get_parents returns level - min_level
\* regions, the k-th having the id stripped of its last k characters (immediate parent
\* first, min_level ancestor last); for a min_level region it returns the empty list.
C18_ParentsUpToMinLevel ==
    ParentsAnswered
    => /\ ret.status = "ok"
       /\ Len(ret.value) = call.level - finder.min_level
       /\ \A k \in 1..Len(ret.value) :
             /\ ret.value[k].id = StripK(call.id, k)
             /\ ret.value[k].level = call.level - k
             /\ InList(ret.value[k], finder.regions)

C18_Witness ==
    /\ ParentsAnswered
    /\ finder.min_level = 0
    /\ call.level = MaxNutsLevel
    /\ Len(ret.value) = MaxNutsLevel
    /\ ret.value[1].id = StripLast(call.id)

\* the loaded regions one level below the last region of s (the min_level regions if
\* s is empty) that are its children and pass the exact test
NextLevelHits(s) ==
    { r \in ExactHits :
        IF s = <<>> THEN r.level = finder.min_level
        ELSE StripLast(r.id) = s[Len(s)].id /\ r.level = s[Len(s)].level + 1 }

\* C19: with valid_point=False a hierarchical strategy returns one unbroken chain
\* prefix: at most one region per level from min_level on, each a child of the one
\* before and passing the exact test, ending before the first level at which no child
\* of the followed node passes the exact test.
C19_SingleChainPrefix ==
    (Answered /\ call.method \in HierarchicalMethods /\ ~call.valid_point)
    => /\ ret.status = "ok"
       /\ \A i \in 1..Len(ret.value) :
             /\ ret.value[i].level = finder.min_level + i - 1
             /\ intersects_xy(ret.value[i].geom, call.lon, call.lat)
       /\ \A i \in 1..(Len(ret.value) - 1) : ret.value[i].id = StripLast(ret.value[i + 1].id)
       /\ NextLevelHits(ret.value) = {}

\* the point of the call lies in a max_level region and in all its ancestors
ValidPoint ==
    \E r \in ExactHits :
       /\ r.level = finder.max_level
       /\ \A k \in 1..(r.level - finder.min_level) :
             \E a \in ExactHits : a.id = StripK(r.id, k)

\* the call of the state, made again with the other value of valid_point
OtherFlag ==
    IF finder.class = "NUTSfinder"
    THEN NUTSfinder_find(finder, call.lon, call.lat, ~call.valid_point)
    ELSE NUTSfinderBenchmark_find(finder, call.lon, call.lat, call.method,
                                  ~call.valid_point)

\* C20: for a point that lies in a max_level region and in all its ancestors, every
\* strategy returns the same ordered list with valid_point=True as with
\* valid_point=False.
C20_FastPathSameResult ==
    (Answered /\ ValidPoint) => (ret.status = "ok" /\ ret = OtherFlag)

C20_Witness ==
    /\ Answered
    /\ ValidPoint
    /\ call.valid_point
    /\ call.method \in FlatMethods
    /\ ~ValidationRuns
    /\ finder.max_level > finder.min_level
    /\ ret.status = "ok" /\ Len(ret.value) > 1

\* every key of the index is a position (0-based) in `regions`, stored with the bbox
\* of the region at that position, and no key is stored twice
KeysArePositions(rt, regions) ==
    /\ \A k \in 1..Len(rt.entries) :
          /\ rt.entries[k].id \in 0..(Len(regions) - 1)
          /\ rt.entries[k].coordinates = regions[rt.entries[k].id + 1].bbox
    /\ \A k, m \in 1..Len(rt.entries) : rt.entries[k].id = rt.entries[m].id => k = m

\* the positions (0-based) in `regions` of the direct children of the node nid
ChildPositions(regions, nid) ==
    { i - 1 : i \in { j \in 1..Len(regions) : ParentId(regions[j], finder.min_level) = nid } }

\* the keys a point query of the index returns lead to regions whose bbox holds the point
QueryKeysHold(rt, regions, lon, lat) ==
    LET found == rtree_intersection(rt, lon, lat)
    IN  \A k \in 1..Len(found) : BboxContains(regions[found[k].id + 1].bbox, lon, lat)

\* C21: in every index built without embedding each key is the position in the sorted
\* region list of the region whose bbox is stored under it, so a key returned by a
\* point query leads to a region whose bbox contains the point; the index of a tree
\* node holds exactly the direct children of the node, and is empty for a leaf.
C21_KeysArePositions ==
    finder.status = "built"
    => /\ KeysArePositions(finder.rtree, finder.regions)
       /\ { finder.rtree.entries[k].id : k \in 1..Len(finder.rtree.entries) }
             = 0..(Len(finder.regions) - 1)
       /\ call # NoCall => QueryKeysHold(finder.rtree, finder.regions, call.lon, call.lat)
       /\ finder.class = "NUTSfinderBenchmark"
          => \A n \in 1..Len(finder.tree_rtree.nodes) :
                LET node == finder.tree_rtree.nodes[n]
                IN  /\ KeysArePositions(node.data, finder.regions)
                    /\ { node.data.entries[k].id : k \in 1..Len(node.data.entries) }
                          = ChildPositions(finder.regions, node.identifier)
                    /\ children(finder.tree_rtree, node.identifier) = <<>>
                       => node.data.entries = <<>>
                    /\ call # NoCall
                       => QueryKeysHold(node.data, finder.regions, call.lon, call.lat)

C21_Witness ==
    /\ Answered
    /\ finder.class = "NUTSfinderBenchmark"
    /\ call.method = "tree_rtree"
    /\ ret.status = "ok" /\ Len(ret.value) = MaxNutsLevel + 1
    /\ LET found == rtree_intersection(get_node(finder.tree_rtree, ret.value[2].id).data,
                                       call.lon, call.lat)
       IN  /\ found # <<>>
           /\ found[1].id > 0
           /\ finder.regions[found[1].id + 1].id = ret.value[3].id
====
